---- MODULE Spec2Model ----
(***************************************************************************)
(* PTDF time series of GridCal: the result store PtdfTimeSeriesResults and *)
(* the driver PtdfTimeSeries (ptdf_ts_driver.py).                          *)
(*                                                                         *)
(* Numbers.  A real is an exact fraction <<num, den>> in lowest terms with *)
(* den >= 0; den = 0 holds the IEEE values numpy produces on a division by *)
(* zero: <<1,0>> is inf, <<-1,0>> is -inf, <<0,0>> is nan.  A complex is   *)
(* <<re, im>>.  Arrays are 0-based functions, as numpy's; the lists that   *)
(* tolist() produces are 1-based sequences.                                *)
(***************************************************************************)
EXTENDS Integers, Sequences, FiniteSets

\* ------------------------------------------------------------------ bounds
\* largest number of time steps of a profile
MaxNt == 2
\* number of buses (n) and of branches (m) of the grids explored
NBus == 2
NBranch == 2

\* ----------------------------------------------------------------- numbers
Abs(i) == IF i < 0 THEN -i ELSE i
Sign(i) == IF i < 0 THEN -1 ELSE IF i = 0 THEN 0 ELSE 1

RECURSIVE Gcd(_, _)
Gcd(a, b) == IF b = 0 THEN a ELSE Gcd(b, a % b)

\* the fraction n/d in lowest terms; n/0 is inf, -inf or nan
RNorm(n, d) ==
    IF d = 0 THEN <<Sign(n), 0>>
    ELSE LET g == Gcd(Abs(n), Abs(d))
         IN  <<(Sign(d) * n) \div g, Abs(d) \div g>>

R(i) == <<i, 1>>
RAdd(a, b) == RNorm(a[1] * b[2] + b[1] * a[2], a[2] * b[2])
RSub(a, b) == RNorm(a[1] * b[2] - b[1] * a[2], a[2] * b[2])
RMul(a, b) == RNorm(a[1] * b[1], a[2] * b[2])
RDiv(a, b) == RNorm(a[1] * b[2], a[2] * b[1])
RFinite(a) == a[2] # 0
RLeq(a, b) == a[1] * b[2] <= b[1] * a[2]
RPositive(a) == a[1] > 0 /\ a[2] > 0

\* a real stored into a complex array
C(x) == <<x, R(0)>>
\* numpy's complex / real: both parts are divided by the real
CDivReal(z, r) == <<RDiv(z[1], r), RDiv(z[2], r)>>
CMulReal(z, r) == <<RMul(z[1], r), RMul(z[2], r)>>
CFinite(z) == RFinite(z[1]) /\ RFinite(z[2])

ISqrt(i) == CHOOSE r \in 0..i : r * r = i
\* np.abs of a complex: sqrt(re^2 + im^2)
CAbs(z) ==
    LET s == RAdd(RMul(z[1], z[1]), RMul(z[2], z[2]))
    IN  RNorm(ISqrt(s[1]), ISqrt(s[2]))

\* an optional value: {} is None, {v} is v
None == {}
Some(v) == {v}
Val(o) == CHOOSE v \in o : TRUE

RECURSIVE SumTo(_, _)
\* f[0] + ... + f[hi - 1]
SumTo(f, hi) == IF hi <= 0 THEN R(0) ELSE RAdd(SumTo(f, hi - 1), f[hi - 1])

\* numpy indexing of an axis of length len: a negative index counts from the end
ValidIndex(i, len) == -len <= i /\ i < len
WrapIndex(i, len) == IF i < 0 THEN i + len ELSE i

VARIABLES
    grid,          \* MultiCircuit as the driver reads it: time_profile
    nc,            \* grid.compile(): Sbase, bus generation and load profiles, br_rates
    ptdf,          \* what the PTDF driver returns: values, cols, Pbr_0, Pbus_0
    start_,        \* self.start_
    end_,          \* self.end_ (None or an index)
    cancel_flag,   \* self.__cancel__
    self_results,  \* self.results
    results,       \* the PtdfTimeSeriesResults being populated / operated on
    pc,            \* where run() is: idle, loop, return, done, raised
    k,             \* the loop's enumerate counter
    error,         \* the exception that ended run(), or that cancel() raised
    ptdf_ran,      \* ptdf_driver.run() was executed
    cancelled_at,  \* history: steps completed when cancel() was first called in the run
    events,        \* the signals emitted, in order
    call,          \* the last result-store call and its arguments
    ret            \* what that call returned or raised

vars == <<grid, nc, ptdf, start_, end_, cancel_flag, self_results, results, pc, k,
          error, ptdf_ran, cancelled_at, events, call, ret>>

driverVars == <<grid, nc, ptdf, start_, end_, cancel_flag, self_results, pc, k,
                error, ptdf_ran, cancelled_at, events>>

Buses == 0..(NBus - 1)
Branches == 0..(NBranch - 1)

\* ------------------------------------------------- PtdfTimeSeriesResults
Zeros(rows, cols) == [t \in 0..(rows - 1) |-> [c \in 0..(cols - 1) |-> C(R(0))]]

\* PtdfTimeSeriesResults.__init__
NewResults(n, m, nt, start, end, time_array) ==
    [n |-> n, m |-> m, nt |-> nt, start |-> start, end |-> end, time |-> time_array,
     S |-> IF nt > 0 THEN Some(Zeros(nt, n)) ELSE None,
     Sbranch |-> IF nt > 0 THEN Some(Zeros(nt, m)) ELSE None,
     loading |-> IF nt > 0 THEN Some(Zeros(nt, m)) ELSE None]

\* array[row, :] = vec
SetRow(array, row, vec) == Some([Val(array) EXCEPT ![row] = vec])

\* ------------------------------------------------------- the driver's inputs
\* grid.time_profile: None, or nt time labels
TimeProfiles == {None} \cup {Some([t \in 0..(nt - 1) |-> t]) : nt \in 0..MaxNt}

\* len(self.grid.time_profile); len(None) raises TypeError
ProfileLen(g) == Cardinality(DOMAIN Val(g.time_profile))

\* nc = grid.compile(): per-bus generation and load (MW) at each step, the
\* power base and the branch ratings; ga, la, zb pick one grid of the family
Compiled(nt, ga, la, zb) ==
    [Sbase |-> R(100),
     bus_gen |-> [b \in Buses |-> [t \in 0..(nt - 1) |-> R(50 * (ga * t + b))]],
     bus_load |-> [b \in Buses |-> [t \in 0..(nt - 1) |-> R(50 * la)]],
     br_rates |-> [j \in Branches |-> IF j = zb THEN R(0) ELSE R(j + 1)]]

\* what the PTDF driver hands back: the sensitivity matrix (NBranch x cols)
\* and the base-case branch flows and bus injections
Sensitivity(cols, pq, b0, u0) ==
    [cols |-> cols,
     values |-> [i \in Branches |-> [j \in 0..(cols - 1) |-> RNorm(i - j + pq, 2)]],
     Pbr_0 |-> [i \in Branches |-> R(b0 + i)],
     Pbus_0 |-> [j \in Buses |-> R(u0 * (j + 1))]]

\* ------------------------------------------------------------- the events
Progress(x) == [sig |-> "progress_signal", value |-> x]
Text(s, label) == [sig |-> "progress_text", text |-> s, at |-> label]
Done == [sig |-> "done_signal"]

\* how a call ended: it returned None or Some(object), or it raised
Returned(v) == [kind |-> "returned", value |-> v]
Raised(e) == [kind |-> "raised", err |-> e]
NoCall == [op |-> "none"]
NoRet == [kind |-> "none"]

\* ---------------------------------------------------------- PtdfTimeSeries
\* PtdfTimeSeries.__init__ assigns no attribute pool, and nothing else does
HasPool == FALSE

\* Pbus[b, t] = (C_bus_gen * generator_power_profile.T - C_bus_load * load_power_profile.T) / Sbase
Pbus(b, t) == RDiv(RSub(nc.bus_gen[b][t], nc.bus_load[b][t]), nc.Sbase)

\* np.dot(ptdf_df.values, v) for a vector v over the buses
Dot(values, i, v) == SumTo([j \in Buses |-> RMul(values[i][j], v[j])], NBus)

\* Pbr_0 + np.dot(ptdf_df.values, (Pbus_0[:] - Pbus[:, t_idx]))
BranchFlow(t) ==
    LET dP == [b \in Buses |-> RSub(ptdf.Pbus_0[b], Pbus(b, t))]
    IN  [i \in Branches |-> C(RAdd(ptdf.Pbr_0[i], Dot(ptdf.values, i, dP)))]

\* mutant of Loading: the rating multiplies instead of dividing
LoadingTimesRating(sbranch_row) ==
    [i \in Branches |-> CMulReal(sbranch_row[i], nc.br_rates[i])]

\* results.Sbranch[k, :] / nc.br_rates
Loading(sbranch_row) == [i \in Branches |-> CDivReal(sbranch_row[i], nc.br_rates[i])]

\* mutant of ProgressValue: the step counted from 0
ProgressValueFromZero(t_idx, start, end) ==
    RMul(RDiv(R(t_idx - start), R(end - start)), R(100))

\* ((t_idx - self.start_ + 1) / (self.end_ - self.start_)) * 100
ProgressValue(t_idx, start, end) == RMul(RDiv(R(t_idx - start + 1), R(end - start)), R(100))

Init ==
    /\ \E tp \in TimeProfiles, ga \in {0, 1}, la \in {0, 3}, zb \in -1..(NBranch - 1),
          cols \in {NBus, NBus + 1}, pq \in {-1, 0}, b0 \in {-2, 1}, u0 \in {0, 1} :
          LET nt == IF tp = None THEN 0 ELSE Cardinality(DOMAIN Val(tp))
          IN  /\ grid = [buses |-> NBus, branches |-> NBranch, time_profile |-> tp]
              /\ nc = Compiled(nt, ga, la, zb)
              /\ ptdf = Sensitivity(cols, pq, b0, u0)
    /\ start_ \in -1..MaxNt
    /\ end_ \in {None} \cup {Some(e) : e \in 0..(MaxNt + 1)}
    /\ cancel_flag = FALSE
    /\ self_results = None
    /\ results = None
    /\ pc = "idle"
    /\ k = 0
    /\ error = None
    /\ ptdf_ran = FALSE
    /\ cancelled_at = None
    /\ events = <<>>
    /\ call = NoCall
    /\ ret = NoRet

\* run() up to the loop: clears the flag, then run_single_thread's set-up
RunBegin ==
    /\ pc = "idle"
    /\ cancel_flag' = FALSE
    /\ cancelled_at' = None
    /\ k' = 0
    /\ IF grid.time_profile = None
       THEN \* nt = len(self.grid.time_profile)
            /\ pc' = "raised"
            /\ error' = Some("TypeError")
            /\ UNCHANGED <<results, end_, ptdf_ran, events>>
       ELSE LET nt == ProfileLen(grid)
            IN  /\ results' = Some(NewResults(grid.buses, grid.branches, nt, start_, end_,
                                              grid.time_profile))
                /\ end_' = IF end_ = None THEN Some(nt) ELSE end_
                /\ IF grid.time_profile # None
                   THEN /\ ptdf_ran' = TRUE
                        /\ pc' = "loop"
                        /\ UNCHANGED events
                   ELSE /\ events' = Append(events, Text("There are no profiles", -1))
                        /\ pc' = "return"
                        /\ UNCHANGED ptdf_ran
                /\ UNCHANGED error
    /\ UNCHANGED <<grid, nc, ptdf, start_, self_results, call, ret>>

\* the exception one pass of the loop body raises, or None
StepError(t_idx, row, nt) ==
    IF ~ValidIndex(t_idx, nt) THEN Some("IndexError")       \* Pbus[:, t_idx]
    ELSE IF ptdf.cols # NBus THEN Some("ValueError")         \* np.dot: shapes not aligned
    ELSE IF ~ValidIndex(row, nt) THEN Some("IndexError")     \* results.Sbranch[k, :]
    ELSE None

\* the row the loop writes for its k-th pass
StepRow(kk, t_idx) == kk

\* one pass of the loop body, for k, t_idx in enumerate(range(start_, end_))
RunStep ==
    /\ pc = "loop"
    /\ start_ + k < Val(end_)
    /\ LET t_idx == start_ + k
           nt == ProfileLen(grid)
           row == StepRow(k, t_idx)
           err == StepError(t_idx, row, nt)
       IN  IF err # None
           THEN /\ pc' = "raised"
                /\ error' = err
                /\ UNCHANGED <<results, k, events>>
           ELSE LET t == WrapIndex(t_idx, nt)
                    sbr == BranchFlow(t)
                    r1 == [Val(results) EXCEPT !.Sbranch = SetRow(@, row, sbr)]
                    r2 == [r1 EXCEPT !.loading = SetRow(@, row, Loading(Val(r1.Sbranch)[row]))]
                IN  /\ results' = Some(r2)
                    /\ events' = events \o
                          <<Progress(ProgressValue(t_idx, start_, Val(end_))),
                            Text("Simulating PTDF at", Val(grid.time_profile)[t])>>
                    /\ k' = k + 1
                    /\ UNCHANGED <<pc, error>>
    /\ UNCHANGED <<grid, nc, ptdf, start_, end_, cancel_flag, self_results, ptdf_ran,
                   cancelled_at, call, ret>>

\* the signals run() sends after run_single_thread returned
FinishSignals == <<Progress(R(0)), Text("Done!", -1), Done>>

\* the loop is exhausted: return results, then the rest of run()
RunReturn ==
    /\ \/ pc = "return"
       \/ pc = "loop" /\ start_ + k >= Val(end_)
    /\ self_results' = results
    /\ events' = events \o FinishSignals
    /\ pc' = "done"
    /\ UNCHANGED <<grid, nc, ptdf, start_, end_, cancel_flag, results, k, error, ptdf_ran,
                   cancelled_at, call, ret>>

\* cancel(), called from another thread at any time
Cancel ==
    /\ cancel_flag' = TRUE
    /\ cancelled_at' = IF pc \in {"loop", "return"} /\ cancelled_at = None
                       THEN Some(k) ELSE cancelled_at
    /\ call' = [op |-> "cancel"]
    /\ IF HasPool
       THEN /\ events' = events \o <<Progress(R(0)), Text("Cancelled!", -1), Done>>
            /\ ret' = Returned(None)
       ELSE \* self.pool.terminate(): AttributeError
            /\ ret' = Raised("AttributeError")
            /\ UNCHANGED events
    /\ UNCHANGED <<grid, nc, ptdf, start_, end_, self_results, results, pc, k, error,
                   ptdf_ran>>

Next == RunBegin \/ RunStep \/ RunReturn \/ Cancel

Spec == Init /\ [][Next]_vars

\* ------------------------------------------ the result store's operations
\* the ResultTypes mdl() dispatches on, and two members it has no branch for
Recognized == {"BusActivePower", "BusReactivePower", "BranchPower", "BranchLoading",
               "BranchLosses", "SimulationError"}
ResultTypes == Recognized \cup {"BusVoltageModule", "BranchCurrent"}

\* PowerFlowResults instances handed to set_at: Sbus, Sbranch, loading
PowerFlowResultsPool ==
    LET Make(sb, sbr, ld) == [Sbus |-> [b \in Buses |-> sb],
                              Sbranch |-> [i \in Branches |-> sbr],
                              loading |-> [i \in Branches |-> ld]]
    IN  {Make(<<R(1), R(2)>>, <<R(2), R(0)>>, <<RNorm(1, 2), R(0)>>),
         Make(<<R(-1), R(0)>>, <<R(-3), R(1)>>, <<RNorm(-3, 2), R(0)>>),
         Make(<<R(0), R(-2)>>, <<R(0), R(0)>>, <<R(3), R(4)>>)}

\* set_at(t, results)
SetAtResult(store, t, r) ==
    IF store.S = None
    THEN [store |-> store, ret |-> Raised("TypeError")]
    ELSE [store |-> [store EXCEPT !.S = SetRow(@, t, r.Sbus),
                                  !.Sbranch = SetRow(@, t, r.Sbranch),
                                  !.loading = SetRow(@, t, r.loading)],
          ret |-> Returned(None)]

Re(z) == z[1]
Im(z) == z[2]
Percent(z) == CMulReal(z, R(100))

\* the elementwise operations the store applies to an array:
\* .real, .imag, np.abs, * 100, and the array as it is
Apply(f, z) ==
    CASE f = "real" -> Re(z)
      [] f = "imag" -> Im(z)
      [] f = "abs" -> CAbs(z)
      [] f = "percent" -> Percent(z)
      [] f = "same" -> z

\* array.tolist() of a 2-D array: a list of rows, each a list
ToList(array) ==
    LET rows == Cardinality(DOMAIN array)
    IN  [t \in 1..rows |-> [c \in 1..Cardinality(DOMAIN array[t - 1]) |-> array[t - 1][c - 1]]]

\* elementwise f over a 2-D array
Map2(array, f) == [t \in DOMAIN array |-> [c \in DOMAIN array[t] |-> Apply(f, array[t][c])]]

\* mutant of GetResultsDictResult: Q copied from the real part
GetResultsDictRealTwice(store) ==
    IF store.S = None
    THEN Raised("AttributeError")
    ELSE Returned(Some([P |-> ToList(Map2(Val(store.S), "real")),
                   Q |-> ToList(Map2(Val(store.S), "real")),
                   Sbr_real |-> ToList(Map2(Val(store.Sbranch), "real")),
                   Sbr_imag |-> ToList(Map2(Val(store.Sbranch), "imag")),
                   loading |-> ToList(Map2(Val(store.loading), "abs"))]))

\* get_results_dict()
GetResultsDictResult(store) ==
    IF store.S = None
    THEN Raised("AttributeError")
    ELSE Returned(Some([P |-> ToList(Map2(Val(store.S), "real")),
                   Q |-> ToList(Map2(Val(store.S), "imag")),
                   Sbr_real |-> ToList(Map2(Val(store.Sbranch), "real")),
                   Sbr_imag |-> ToList(Map2(Val(store.Sbranch), "imag")),
                   loading |-> ToList(Map2(Val(store.loading), "abs"))]))

\* array[:, indices] of an optional 2-D array with ncols columns, then f elementwise
Columns(array, indices, f) ==
    [t \in DOMAIN Val(array) |->
        [c \in 1..Len(indices) |->
            Apply(f, Val(array)[t][WrapIndex(indices[c], Cardinality(DOMAIN Val(array)[t]))])]]

\* the exception array[:, indices] raises, or None
ColumnsError(array, ncols, indices) ==
    IF array = None THEN Some("TypeError")
    ELSE IF \E c \in 1..Len(indices) : ~ValidIndex(indices[c], ncols) THEN Some("IndexError")
    ELSE None

\* mutant of HasSelection: the emptiness test left out
HasSelectionAlways(idx) == TRUE

\* if len(indices) > 0
HasSelection(idx) == Len(idx) > 0

\* mdl(result_type, indices, names); base_ok: whether the arrays losses and
\* error of the base class PowerFlowResults can be sliced
MdlResult(store, result_type, indices, names, base_ok) ==
    IF indices = None /\ names = None
    THEN Raised("TypeError")                           \* len(names)
    ELSE LET idx == IF indices = None
                    THEN [c \in 1..Val(names) |-> c - 1]
                    ELSE Val(indices)
             Model(title, y_label, data) ==
                 Returned(Some([title |-> title, ylabel |-> y_label, data |-> data,
                                index |-> IF store.time # None THEN store.time
                                          ELSE Some([t \in DOMAIN data |-> t])]))
             Slice(array, ncols, f, title, y_label) ==
                 IF ColumnsError(array, ncols, idx) # None
                 THEN Raised(Val(ColumnsError(array, ncols, idx)))
                 ELSE Model(title, y_label, Columns(array, idx, f))
         IN  IF HasSelection(idx)
             THEN IF names = None
                     \/ \E c \in 1..Len(idx) : ~ValidIndex(idx[c], Val(names))
                  THEN Raised(IF names = None THEN "TypeError" ELSE "IndexError")  \* names[indices]
                  ELSE CASE result_type = "BusActivePower" ->
                                Slice(store.S, store.n, "real", "Bus active power ", "(MW)")
                         [] result_type = "BusReactivePower" ->
                                Slice(store.S, store.n, "imag", "Bus reactive power ", "(MVAr)")
                         [] result_type = "BranchPower" ->
                                Slice(store.Sbranch, store.m, "same", "Branch power ", "(MVA)")
                         [] result_type = "BranchLoading" ->
                                Slice(store.loading, store.m, "percent", "Branch loading ", "(%)")
                         [] result_type = "BranchLosses" ->
                                IF base_ok THEN Model("Branch losses", "(MVA)", <<>>)
                                ELSE Raised("TypeError")
                         [] result_type = "SimulationError" ->
                                IF base_ok THEN Model("Error", "Per unit power", <<>>)
                                ELSE Raised("TypeError")
                         [] OTHER -> Raised("Result type not understood")
             ELSE Returned(None)

\* a result store as constructed, before any step or call
InitStore ==
    /\ \E nt \in 0..MaxNt, timed \in BOOLEAN :
          results = Some(NewResults(NBus, NBranch, nt, 0, None,
                                    IF timed THEN Some([t \in 0..(nt - 1) |-> t]) ELSE None))
    /\ grid = [buses |-> NBus, branches |-> NBranch, time_profile |-> None]
    /\ nc = Compiled(0, 0, 0, -1)
    /\ ptdf = Sensitivity(NBus, 0, 0, 0)
    /\ start_ = 0
    /\ end_ = None
    /\ cancel_flag = FALSE
    /\ self_results = None
    /\ pc = "idle"
    /\ k = 0
    /\ error = None
    /\ ptdf_ran = FALSE
    /\ cancelled_at = None
    /\ events = <<>>
    /\ call = NoCall
    /\ ret = NoRet

\* the selections mdl() is called with: None, none, one, all in reverse, one out of range
Selections(nn) == {None, Some(<<>>), Some(<<0>>), Some([c \in 1..nn |-> nn - c]), Some(<<nn>>)}

SetAt ==
    /\ \E t \in 0..(Val(results).nt - 1), r \in PowerFlowResultsPool :
          /\ call' = [op |-> "set_at", t |-> t, results |-> r]
          /\ results' = Some(SetAtResult(Val(results), t, r).store)
          /\ ret' = SetAtResult(Val(results), t, r).ret
    /\ UNCHANGED driverVars

GetResultsDict ==
    /\ call' = [op |-> "get_results_dict"]
    /\ ret' = GetResultsDictResult(Val(results))
    /\ UNCHANGED <<results, driverVars>>

Mdl ==
    /\ \E result_type \in ResultTypes, names \in {None, Some(NBus), Some(NBranch)} :
          \E indices \in Selections(IF names = None THEN NBus ELSE Val(names)),
             base_ok \in IF result_type \in {"BranchLosses", "SimulationError"}
                         THEN BOOLEAN ELSE {TRUE} :
             /\ call' = [op |-> "mdl", result_type |-> result_type, indices |-> indices,
                         names |-> names]
             /\ ret' = MdlResult(Val(results), result_type, indices, names, base_ok)
    /\ UNCHANGED <<results, driverVars>>

NextStore == GetResultsDict \/ Mdl \/ SetAt

SpecStore == InitStore /\ [][NextStore]_vars

\* ================================================================ claims
\* what the formulas below read off the state
Nt == IF grid.time_profile = None THEN 0 ELSE ProfileLen(grid)
EndOrNt == IF end_ = None THEN Nt ELSE Val(end_)
ValidRange == 0 <= start_ /\ start_ < EndOrNt /\ EndOrNt <= Nt
\* the preconditions of the evaluator hold
ValidInputs == grid.time_profile # None /\ ValidRange /\ ptdf.cols = NBus
ProgressEvents == SelectSeq(events, LAMBDA e : e.sig = "progress_signal")
TextEvents == SelectSeq(events, LAMBDA e : e.sig = "progress_text")
DoneEvents == SelectSeq(events, LAMBDA e : e.sig = "done_signal")
HasText(s) == \E i \in 1..Len(TextEvents) : TextEvents[i].text = s
Tail3(seq) == SubSeq(seq, Len(seq) - 2, Len(seq))
\* the rows the loop has written so far
Populated == 0..(k - 1)
Row(field, r) == Val(field)[r]

\* C1: once cancel() has been called during a run, the loop starts no further
\* step: the rows populated are exactly those completed before the request.
C1_CancelStopsTheLoop ==
    (ValidInputs /\ cancelled_at # None) => k = Val(cancelled_at)

\* C2: a run in which cancel() was called ends with progress 0 and a
\* "Cancelled!" status as its terminal event and never emits "Done!" or a
\* second terminal signal; a run that was not cancelled ends with the
\* completion event and never a cancelled status.
C2_TerminalEventTellsCancelFromDone ==
    (ValidInputs /\ pc = "done") =>
        IF cancelled_at # None
        THEN /\ Len(events) >= 3
             /\ Tail3(events) = <<Progress(R(0)), Text("Cancelled!", -1), Done>>
             /\ ~HasText("Done!")
             /\ Len(DoneEvents) = 1
        ELSE /\ events[Len(events)] = Done
             /\ ~HasText("Cancelled!")

\* C3 as claimed: in an uncancelled run over k >= 1 steps every progress value
\* emitted up to the terminal completion event is non-decreasing, above 0
\* after the first step and exactly 100 at the last step.
C3_ProgressNeverDropsBeforeDone ==
    (ValidInputs /\ pc = "done" /\ cancelled_at = None /\ EndOrNt - start_ >= 1) =>
        /\ events[Len(events)] = Done
        /\ \A i, j \in 1..Len(ProgressEvents) :
              i <= j => RLeq(ProgressEvents[i].value, ProgressEvents[j].value)
        /\ ~RLeq(ProgressEvents[1].value, R(0))
        /\ ProgressEvents[EndOrNt - start_].value = R(100)

\* C3 as amended: the progress values the steps emit are non-decreasing, the
\* first is above 0 and the last is exactly 100; run() then emits progress 0,
\* the status "Done!" and the completion signal, in that order.
C3_StepProgressThenResetAndDone ==
    (pc = "done" /\ cancelled_at = None /\ EndOrNt - start_ >= 1) =>
        LET n == EndOrNt - start_
        IN  /\ Len(events) = 2 * n + 3
            /\ Len(ProgressEvents) = n + 1
            /\ \A i, j \in 1..n :
                  i <= j => RLeq(ProgressEvents[i].value, ProgressEvents[j].value)
            /\ ~RLeq(ProgressEvents[1].value, R(0))
            /\ ProgressEvents[n].value = R(100)
            /\ \A i \in 1..n : events[2 * i - 1] = ProgressEvents[i]
            /\ Tail3(events) = <<Progress(R(0)), Text("Done!", -1), Done>>

C3_Witness ==
    /\ pc = "done" /\ cancelled_at = None /\ EndOrNt - start_ >= 2
    /\ ProgressEvents[1].value = R(50)

\* the branch flow the specification prescribes for step t and branch i:
\* baseBranchFlow + PTDF . (baseBusInjection - (gen[t] - load[t]) / Sbase)
SpecBranchPower(t, i) ==
    LET term(j) == RMul(ptdf.values[i][j],
                        RSub(ptdf.Pbus_0[j],
                             RDiv(RSub(nc.bus_gen[j][t], nc.bus_load[j][t]), nc.Sbase)))
    IN  RAdd(ptdf.Pbr_0[i], SumTo([j \in Buses |-> term(j)], NBus))

\* C4: after a run over [start, end) with 0 <= start < end <= nt, for every t
\* in the range the result row with index t holds the prescribed branch flow.
C4_RowTHoldsBranchPowerOfStepT ==
    (pc = "done" /\ ValidInputs) =>
        \A t \in start_..(EndOrNt - 1), i \in Branches :
            Row(Val(self_results).Sbranch, t)[i] = C(SpecBranchPower(t, i))

\* C5: during and after a run, in every populated row the loading of a branch
\* with a positive rating is its branch power divided by the rating.
C5_LoadingIsPowerOverRating ==
    (results # None /\ k > 0) =>
        \A r \in Populated, j \in Branches :
            RPositive(nc.br_rates[j]) =>
                LET ld == Row(Val(results).loading, r)[j]
                    sb == Row(Val(results).Sbranch, r)[j]
                IN  /\ RFinite(ld[1]) /\ RFinite(ld[2])
                    /\ RMul(ld[1], nc.br_rates[j]) = sb[1]
                    /\ RMul(ld[2], nc.br_rates[j]) = sb[2]

C5_Witness ==
    /\ pc = "done" /\ k >= 2
    /\ \E r \in Populated, j \in Branches :
          /\ nc.br_rates[j] = R(2)
          /\ Row(Val(results).Sbranch, r)[j] # C(R(0))
          /\ Row(Val(results).loading, r)[j] # Row(Val(results).Sbranch, r)[j]

\* C6: with no time profile (nt = 0 or the profile absent) the evaluator
\* computes nothing (no sensitivity run, no step), raises no exception,
\* returns an empty result and emits a "no profiles" status.
C6_NoProfileNoComputation ==
    ((grid.time_profile = None \/ Nt = 0) /\ pc # "idle") =>
        /\ ~ptdf_ran
        /\ k = 0
        /\ pc # "raised"
        /\ pc = "done" => HasText("There are no profiles")

\* C7: a sensitivity matrix of the wrong shape, or a step range outside
\* 0 <= start < end <= nt, is reported before the loop: no step is computed,
\* no progress is emitted, and the run does not complete as if it were valid.
C7_PreconditionViolationFailsFast ==
    (grid.time_profile # None /\ Nt > 0 /\ (ptdf.cols # NBus \/ ~ValidRange)) =>
        /\ k = 0
        /\ Len(ProgressEvents) = 0
        /\ pc # "done"

\* C10: a zero branch rating never leaves an infinite or undefined loading in
\* a populated row.
C10_ZeroRatingStoresNoInfinity ==
    (results # None /\ k > 0) =>
        \A r \in Populated, j \in Branches :
            nc.br_rates[j] = R(0) => CFinite(Row(Val(results).loading, r)[j])

\* the selection mdl() works on, read off the call: None means every name
CallSelection ==
    IF call.indices = None THEN [c \in 1..Val(call.names) |-> c - 1] ELSE Val(call.indices)
\* the call names entities that exist
CallSelectsEntities ==
    /\ call.names # None
    /\ \A c \in 1..Len(CallSelection) : ValidIndex(CallSelection[c], Val(call.names))
UnknownKindError == [kind |-> "raised", err |-> "Result type not understood"]

\* C8 as claimed: mdl() with a kind outside the fixed set signals the error for
\* every selection of entities, the empty one included; with a recognized
\* kind it never signals that error.
C8_UnknownKindAlwaysSignals ==
    call.op = "mdl" =>
        /\ (call.result_type \notin Recognized /\ CallSelectsEntities) => ret = UnknownKindError
        /\ call.result_type \in Recognized => ret # UnknownKindError

\* C8 as amended: mdl() with a kind outside the fixed set signals the error
\* for every non-empty selection of entities and returns None, without an
\* error, for the empty selection; with a recognized kind it never signals
\* that error.
C8_UnknownKindSignalsUnlessEmpty ==
    call.op = "mdl" =>
        /\ (call.result_type \notin Recognized /\ CallSelectsEntities) =>
              IF Len(CallSelection) > 0
              THEN ret = UnknownKindError
              ELSE ret = [kind |-> "returned", value |-> {}]
        /\ call.result_type \in Recognized => ret # UnknownKindError

C8_Witness ==
    /\ call.op = "mdl"
    /\ call.result_type = "BranchCurrent"
    /\ call.indices # None /\ Len(Val(call.indices)) = NBus
    /\ CallSelectsEntities
    /\ ret = UnknownKindError

\* re-parsing a list of rows into a 0-based array
FromList(list) == [t \in 0..(Len(list) - 1) |-> [c \in 0..(Len(list[t + 1]) - 1) |-> list[t + 1][c + 1]]]
\* the complex array rebuilt from its real and imaginary lists
Rebuild(re, im) ==
    [t \in DOMAIN FromList(re) |-> [c \in DOMAIN FromList(re)[t] |-> <<FromList(re)[t][c], FromList(im)[t][c]>>]]
\* x is the magnitude of z
IsMagnitude(x, z) ==
    /\ RLeq(R(0), x)
    /\ RMul(x, x) = RAdd(RMul(z[1], z[1]), RMul(z[2], z[2]))
Serialized == call.op = "get_results_dict" /\ Val(results).S # None
\* the dictionary get_results_dict() returned
Dict == Val(ret.value)

\* C9 as claimed: get_results_dict() followed by re-parsing gives back the
\* stored bus power, branch power and loading values, also where the loading
\* is negative.
C9_RoundTripGivesBackEveryArray ==
    Serialized =>
        /\ ret.kind = "returned"
        /\ Rebuild(Dict.P, Dict.Q) = Val(Val(results).S)
        /\ Rebuild(Dict.Sbr_real, Dict.Sbr_imag) = Val(Val(results).Sbranch)
        /\ \A t \in DOMAIN Val(Val(results).loading), j \in Branches :
              C(FromList(Dict.loading)[t][j]) = Val(Val(results).loading)[t][j]

\* C9 as amended: for a store with nt > 0, get_results_dict() followed by
\* re-parsing gives back the stored bus power and branch power (real and
\* imaginary parts), and for the loading the magnitude of the stored value.
C9_RoundTripGivesBackPowerAndLoadingMagnitude ==
    Serialized =>
        /\ ret.kind = "returned"
        /\ Rebuild(Dict.P, Dict.Q) = Val(Val(results).S)
        /\ Rebuild(Dict.Sbr_real, Dict.Sbr_imag) = Val(Val(results).Sbranch)
        /\ DOMAIN FromList(Dict.loading) = DOMAIN Val(Val(results).loading)
        /\ \A t \in DOMAIN Val(Val(results).loading), j \in Branches :
              IsMagnitude(FromList(Dict.loading)[t][j], Val(Val(results).loading)[t][j])

C9_Witness ==
    /\ Serialized
    /\ ret.kind = "returned"
    /\ \E t \in DOMAIN Val(Val(results).loading) :
          /\ Val(Val(results).loading)[t][0] = <<RNorm(-3, 2), R(0)>>
          /\ Val(Val(results).S)[t][0] = <<R(-1), R(0)>>
    /\ \E t \in DOMAIN Val(Val(results).loading) :
          /\ Val(Val(results).loading)[t][0] = <<R(3), R(4)>>
          /\ FromList(Dict.loading)[t][0] = R(5)

====
